---- MODULE Spec2Model ----
(***************************************************************************)
(* Balance fetching against The Graph Token API: the all-tokens paginators *)
(*   get_multiple_token_balances_ethereum_thegraph   (fn = "ethereum")     *)
(*   get_multiple_token_balances_base_thegraph       (fn = "base")         *)
(*   get_all_token_balances_thegraph                 (fn = "generic")      *)
(*   TheGraphClient.get_all_token_balances           (fn = "client")       *)
(* the single requests                                                     *)
(*   TheGraphClient.get_native_balance               (fn = "native")       *)
(*   TheGraphClient.get_token_balances               (fn = "token_page")   *)
(*   get_native_eth_balance_thegraph                 (fn = "native_eth")   *)
(*   get_native_base_balance_thegraph                (fn = "native_base")  *)
(*   get_native_balance_thegraph                     (fn = "native_generic")*)
(* and the lookups of one token by symbol, which run a paginator (fn) on   *)
(* behalf of a caller                                                      *)
(*   get_token_balance_ethereum_thegraph             (caller = "token_eth")*)
(*   get_token_balance_base_thegraph                 (caller = "token_base")*)
(*   get_token_balance_thegraph                      (caller = "token_generic")*)
(*   TheGraphClient.get_token_balance_by_symbol      (caller = "by_symbol")*)
(* and the functions of thegraph/utils.py                                  *)
(*   get_chain_info, format_token_balance, format_usd_value                *)
(* (fn is the function's name, args its argument).                         *)
(*                                                                         *)
(* One call is modelled from its entry to its return.  A step of the model *)
(* is the code between two suspension points (await): the inter-request    *)
(* sleep, the HTTP request, the cooldown sleep after a 429.  The upstream  *)
(* is the environment: it picks the answer to every request.               *)
(***************************************************************************)
EXTENDS Integers, Sequences, FiniteSets, TLC

VARIABLES
    fn,             \* the function that was called
    network,        \* its network argument (generic, client, native)
    token_symbols,  \* its token_symbols argument (ethereum, base)
    api_key,        \* its api_key argument (TheGraphClient: of the constructor)
    env_key,        \* os.getenv("THEGRAPH_API_KEY")
    caller,         \* the lookup that called fn, if one did
    token_symbol,   \* the token_symbol argument of the lookup
    outer,          \* what the lookup gave back to its caller
    sessions,       \* the number of httpx.AsyncClient sessions that are open
    sent_keys,      \* history: the bearer tokens sent upstream
    pc,             \* where the call is suspended
    page,           \* local: page
    all_tokens,     \* local: all_tokens
    result,         \* what the call gave back to its caller
    requested,      \* history: page number of every request sent, in order
    answered,       \* history: the upstream's answer to every request, in order
    registry,       \* the module global SUPPORTED_CHAINS of thegraph/utils.py
    args,           \* the argument of a call of a function of thegraph/utils.py
    null_symbols,   \* upstream: the tokens whose symbol field is null
    address,        \* the wallet the call asks for (offset of its token numbers)
    peer            \* <<frame>> of the suspended call while two calls are interleaved

\* what no step of a running call assigns: its arguments, the environment, the
\* registry, the upstream's data and the frame of the suspended call
inputs == <<fn, network, token_symbols, api_key, env_key, caller, token_symbol,
            registry, args, null_symbols, address, peer>>
vars == <<fn, network, token_symbols, api_key, env_key, caller, token_symbol, outer,
          sessions, sent_keys, pc, page, all_tokens, result, requested, answered,
          registry, args, null_symbols, address, peer>>

None == "<None>"

\* Python truth of an Optional[str]
Truthy(s) == s # None /\ s # ""
\* x or y
Or(x, y) == IF Truthy(x) THEN x ELSE y

----------------------------------------------------------------------------
(* Bounds of the model *)

\* the upstream answers 429 at most this many times during one call
MaxRateLimited == 2
\* 429 is answered only for the first and the last RateLimitWindow pages a call can ask for
RateLimitWindow == 2
\* the wallet holds at most this many full pages (caps the paginators without a ceiling)
MaxFullPages == 101

----------------------------------------------------------------------------
(* Program constants *)

limit == 10
max_pages_ethereum == 50
max_pages_base == 100

PerChain == {"ethereum", "base"}
Returning == {"ethereum", "base", "generic"}   \* return {"tokens", "error"}
Paginators == {"ethereum", "base", "generic", "client"}
\* the methods of TheGraphClient: they use the session the constructor opened
ClientMethods == {"client", "native", "token_page"}

HasCeiling(f) == f \in PerChain
max_pages(f) == IF f = "ethereum" THEN max_pages_ethereum ELSE max_pages_base

\* the last page number a call can ask for within the bounds
LastPage(f) == IF HasCeiling(f) THEN max_pages(f) ELSE MaxFullPages + 1

----------------------------------------------------------------------------
(* Chain registry: get_chain_info *)

Networks == {"ethereum", "1", "BASE", "8453", "notachain"}

\* str.lower() on the strings the model passes as a network
LowerOf ==
    [ETHEREUM |-> "ethereum", Ethereum |-> "ethereum", eThErEuM |-> "ethereum",
     POLYGON |-> "polygon", Polygon |-> "polygon", polyGON |-> "polygon",
     BASE |-> "base", Base |-> "base", bAsE |-> "base",
     ARBITRUM |-> "arbitrum", Arbitrum |-> "arbitrum", arbitruM |-> "arbitrum",
     OPTIMISM |-> "optimism", Optimism |-> "optimism", OPtimism |-> "optimism",
     BSC |-> "bsc", Bsc |-> "bsc", bSc |-> "bsc",
     AVALANCHE |-> "avalanche", Avalanche |-> "avalanche", avaLANche |-> "avalanche",
     MAINNET |-> "mainnet", Mainnet |-> "mainnet", ETH |-> "eth", MATIC |-> "matic",
     NotAChain |-> "notachain"]

Lower(s) == IF s \in DOMAIN LowerOf THEN LowerOf[s] ELSE s

ChainInfo(chain_id, name, native_symbol, network_name) ==
    [chain_id |-> chain_id, name |-> name, native_symbol |-> native_symbol,
     network_name |-> network_name]

SUPPORTED_CHAINS ==
    [c \in {"1", "137", "8453", "42161", "10", "56", "43114"} |->
        CASE c = "1" -> ChainInfo("1", "Ethereum", "ETH", "mainnet")
          [] c = "137" -> ChainInfo("137", "Polygon", "MATIC", "polygon")
          [] c = "8453" -> ChainInfo("8453", "Base", "ETH", "base")
          [] c = "42161" -> ChainInfo("42161", "Arbitrum", "ETH", "arbitrum-one")
          [] c = "10" -> ChainInfo("10", "Optimism", "ETH", "optimism")
          [] c = "56" -> ChainInfo("56", "BSC", "BNB", "bsc")
          [] c = "43114" -> ChainInfo("43114", "Avalanche", "AVAX", "avalanche")]

NETWORK_NAME_TO_CHAIN_ID ==
    [ethereum |-> "1", polygon |-> "137", base |-> "8453", arbitrum |-> "42161",
     optimism |-> "10", bsc |-> "56", avalanche |-> "43114"]

\* get_chain_info's None
NoChain == [chain_id |-> None, name |-> None, native_symbol |-> None, network_name |-> None]

\* faulty variant: the lookup without network.lower()
get_chain_info_CaseSensitive(n) ==
    IF n \in DOMAIN registry
    THEN registry[n]
    ELSE IF n \in DOMAIN NETWORK_NAME_TO_CHAIN_ID
         THEN registry[NETWORK_NAME_TO_CHAIN_ID[n]]
         ELSE NoChain

\* faulty variant: an unknown network falls back to the first chain
get_chain_info_Fallback(n) ==
    IF Lower(n) \in DOMAIN registry THEN registry[Lower(n)]
    ELSE IF Lower(n) \in DOMAIN NETWORK_NAME_TO_CHAIN_ID
         THEN registry[NETWORK_NAME_TO_CHAIN_ID[Lower(n)]]
         ELSE registry["1"]

get_chain_info(n) ==
    LET network_lower == Lower(n) IN
    IF network_lower \in DOMAIN registry
    THEN registry[network_lower]
    ELSE IF network_lower \in DOMAIN NETWORK_NAME_TO_CHAIN_ID
         THEN IF NETWORK_NAME_TO_CHAIN_ID[network_lower] \in DOMAIN registry
              THEN registry[NETWORK_NAME_TO_CHAIN_ID[network_lower]]
              ELSE NoChain
         ELSE NoChain

----------------------------------------------------------------------------
(* The upstream.  The tokens of the wallet at address are numbered           *)
(* address+1, address+2, ... in upstream order; page p of size limit holds   *)
(* the tokens address+(p-1)*limit+1 .. address+p*limit.                      *)

Symbols == <<"USDC", "dai", "WETH">>
\* the symbol field of entry id: a string, or null (null symbols are drawn
\* only for calls without a symbol filter)
SymbolOf(id) == IF id \in null_symbols THEN None ELSE Symbols[(id % 3) + 1]

Upper(s) ==
    IF s \in {"dai", "Dai"} THEN "DAI" ELSE IF s = "usdc" THEN "USDC" ELSE s

\* the data list of an answer to page p that holds n entries
PageItems(p, n) == [i \in 1..n |-> address + (p - 1) * limit + i]

OtherStatuses == {404, 500}
ExceptionKinds == {"timeout", "connect", "protocol"}

Ok(n) == [kind |-> "ok", code |-> 200, n |-> n]
Status(c) == [kind |-> "status", code |-> c, n |-> 0]
Failed(k) == [kind |-> k, code |-> 0, n |-> 0]

IsOk(a) == a.kind = "ok"
Is429(a) == a.kind = "status" /\ a.code = 429
IsFull(a) == a.kind = "ok" /\ a.n = limit

RateLimitedSoFar == Cardinality({i \in DOMAIN answered : Is429(answered[i])})

\* (and only to a function that was called directly, not on behalf of a lookup)
MayRateLimit(f, p) ==
    /\ caller = None
    /\ RateLimitedSoFar < MaxRateLimited
    /\ \/ p <= RateLimitWindow
       \/ p > LastPage(f) - RateLimitWindow

\* the answers the upstream can give to a request for page p
PageAnswers(f, p) ==
    {Ok(n) : n \in 0..(limit - 1)}
      \cup (IF p <= MaxFullPages THEN {Ok(limit)} ELSE {})
      \cup {Status(c) : c \in {401, 403} \cup OtherStatuses}
      \cup (IF MayRateLimit(f, p) THEN {Status(429)} ELSE {})
      \cup {Failed(k) : k \in ExceptionKinds}

----------------------------------------------------------------------------
(* Results *)

Pending == [raised |-> FALSE, tokens |-> <<>>, error |-> "<pending>"]

\* return {"tokens": tokens, "error": error}; the client returns the bare list
Return(tokens, error) == [raised |-> FALSE, tokens |-> tokens, error |-> error]
\* raise ValueError(message): nothing is returned
Raise(message) == [raised |-> TRUE, tokens |-> <<>>, error |-> message]

AuthenticationFailed == "The Graph API authentication failed. Please check your API key."
AccessForbidden == "The Graph API access forbidden. Please check your API key permissions."
RateLimitExceeded == "The Graph API rate limit exceeded. Please wait and try again."
NetworkErrorDuringPagination == "Network error during pagination: <str(e)>"
RequestTimeout == "Request timeout. The API took too long to respond."
ErrorFetchingTokenBalances == "Error fetching token balances: <str(e)>"
UnsupportedNetwork == "Unsupported network: <network>"

HttpError(code) ==
    IF code = 404 THEN "HTTP error! status: 404" ELSE "HTTP error! status: 500"

MaxPageLimitReached(f) ==
    IF f = "ethereum"
    THEN "Reached maximum page limit (50). There may be more tokens. Consider filtering by token_symbols."
    ELSE "Reached maximum page limit (100). There may be more tokens. Consider filtering by token_symbols."

ApiKeyNotSet == "THEGRAPH_API_KEY environment variable is not set"
ApiKeyRequired ==
    "The Graph API key is required. Provide it as parameter or set THEGRAPH_API_KEY environment variable."

----------------------------------------------------------------------------
(* The API key and the HTTP sessions *)

\* faulty variant: the environment is preferred to the parameter
EffectiveKey_EnvFirst(param, env) == Or(env, param)

\* if not api_key: api_key = os.getenv("THEGRAPH_API_KEY")
EffectiveKey(param, env) == Or(param, env)

\* faulty variant: the session is left open
CloseSession_Leak(n) == n

\* the end of an "async with httpx.AsyncClient(...)" block; TheGraphClient.close
CloseSession(n) == n - 1

\* httpx.AsyncClient(...)
OpenSession(n) == n + 1

\* the request carries the header Authorization: Bearer <key>
Sent(keys) == keys \cup {EffectiveKey(api_key, env_key)}

\* the per-chain functions whose "async with" block spans the handling of the
\* response, the sleep after a 429 included
SessionSpansHandling(f) == f \in {"base", "generic"}

----------------------------------------------------------------------------
(* The paginators that return {"tokens", "error"} *)

\* faulty variants of the loop condition: the ceiling page is not fetched; no ceiling
LoopCondition_Exclusive(f, p) == HasCeiling(f) => p < max_pages(f)
LoopCondition_Unbounded(f, p) == TRUE

\* while page <= max_pages:   /   while True:
LoopCondition(f, p) == HasCeiling(f) => p <= max_pages(f)

\* token_symbols=None, and token_symbols=[...]
NoSymbols == [given |-> FALSE, list |-> <<>>]
SymbolList(l) == [given |-> TRUE, list |-> l]

\* the tokens of one page that are appended to all_tokens
Retained(f, items, symbols) ==
    IF f = "generic" \/ symbols = NoSymbols
    THEN items
    ELSE SelectSeq(items, LAMBDA id :
             Upper(SymbolOf(id)) \in {Upper(symbols.list[i]) : i \in DOMAIN symbols.list})

\* faulty variant: a full page ends the pagination too
IsLastPage_Inclusive(n) == n <= limit

\* if len(data["data"]) < limit: break
IsLastPage(n) == n < limit

\* faulty variant: a page is skipped
NextPage_Skip(p) == p + 2

\* page += 1
NextPage(p) == p + 1

\* faulty variant: the retry advances to the next page
RetryPage_Advance(p) == p + 1

\* the page asked for after a 429: continue, page unchanged
RetryPage(p) == p

\* status 401 and 403: return {"tokens": [], "error": ...}
AuthFailureTokens(tokens) == <<>>

\* faulty variant: the except clauses drop what was gathered
FailureTokens_Dropped(tokens) == <<>>

\* the except clauses: return {"tokens": all_tokens, "error": ...}
FailureTokens(tokens) == tokens

\* the message of the except clause that catches exception kind k in function f
ExceptionMessage(f, k) ==
    IF f = "ethereum"
    THEN IF k \in {"timeout", "connect"}
         THEN NetworkErrorDuringPagination
         ELSE ErrorFetchingTokenBalances
    ELSE IF f = "base" /\ k = "timeout"
         THEN RequestTimeout
         ELSE ErrorFetchingTokenBalances

\* faulty variant: the error is reported whenever the loop ended on the
\* ceiling page
AfterLoop_AtCeiling(f, p, tokens) ==
    IF HasCeiling(f) /\ p >= max_pages(f)
    THEN Return(tokens, MaxPageLimitReached(f))
    ELSE Return(tokens, None)

\* the code after the loop
AfterLoop(f, p, tokens) ==
    IF HasCeiling(f) /\ p > max_pages(f)
    THEN Return(tokens, MaxPageLimitReached(f))
    ELSE Return(tokens, None)

\* Control comes back to the loop head with page p and all_tokens = tokens.
ToLoopHead(f, p, tokens) ==
    IF LoopCondition(f, p)
    THEN /\ pc' = "delay"
         /\ page' = p
         /\ all_tokens' = tokens
         /\ result' = result
    ELSE /\ pc' = "done"
         /\ page' = p
         /\ all_tokens' = tokens
         /\ result' = AfterLoop(f, p, tokens)

\* The call ends with result r.
Finish(p, tokens, r) ==
    /\ pc' = "done"
    /\ page' = p
    /\ all_tokens' = tokens
    /\ result' = r

\* The call is entered and runs to its first suspension point.
Call ==
    /\ pc = "idle"
    /\ fn \in Returning
    /\ IF ~Truthy(EffectiveKey(api_key, env_key))
       THEN Finish(page, all_tokens, Return(<<>>, ApiKeyNotSet))
       ELSE IF fn = "generic" /\ get_chain_info(network) = NoChain
       THEN Finish(page, all_tokens, Return(<<>>, UnsupportedNetwork))
       ELSE ToLoopHead(fn, 1, <<>>)
    /\ UNCHANGED <<inputs, outer, sessions, sent_keys, requested, answered>>

\* await asyncio.sleep(delay) ends and the request for the page is sent
Request ==
    /\ pc = "delay"
    /\ fn \in Returning
    /\ pc' = "request"
    /\ sessions' = OpenSession(sessions)
    /\ sent_keys' = Sent(sent_keys)
    /\ requested' = Append(requested, page)
    /\ UNCHANGED <<inputs, outer, page, all_tokens, result, answered>>

\* The answer a to the request arrives; the code runs to the next suspension point or return.
Respond(a) ==
    /\ pc = "request"
    /\ fn \in Returning
    /\ answered' = Append(answered, a)
    /\ sessions' = IF Is429(a) /\ SessionSpansHandling(fn)
                   THEN sessions
                   ELSE CloseSession(sessions)
    /\ IF a.kind \in ExceptionKinds
       THEN Finish(page, all_tokens, Return(FailureTokens(all_tokens), ExceptionMessage(fn, a.kind)))
       ELSE IF a.kind = "status" /\ a.code = 401
       THEN Finish(page, all_tokens, Return(AuthFailureTokens(all_tokens), AuthenticationFailed))
       ELSE IF a.kind = "status" /\ a.code = 403
       THEN Finish(page, all_tokens, Return(AuthFailureTokens(all_tokens), AccessForbidden))
       ELSE IF a.kind = "status" /\ a.code = 429
       THEN /\ pc' = "cooldown"
            /\ UNCHANGED <<page, all_tokens, result>>
       ELSE IF a.kind = "status"
       THEN Finish(page, all_tokens, Return(FailureTokens(all_tokens), HttpError(a.code)))
       ELSE IF a.n = 0
       THEN Finish(page, all_tokens, AfterLoop(fn, page, all_tokens))
       ELSE LET tokens == all_tokens \o Retained(fn, PageItems(page, a.n), token_symbols) IN
            IF IsLastPage(a.n)
            THEN Finish(page, tokens, AfterLoop(fn, page, tokens))
            ELSE ToLoopHead(fn, NextPage(page), tokens)
    /\ UNCHANGED <<inputs, outer, sent_keys, requested>>

\* faulty variant: the retry is sent as soon as the cooldown ends
Continue_Unpaced ==
    /\ pc' = "request"
    /\ requested' = Append(requested, RetryPage(page))
    /\ sent_keys' = Sent(sent_keys)
    /\ UNCHANGED <<page, all_tokens, result>>

\* continue: back to the loop head, whose body begins with the pacing sleep
Continue ==
    /\ ToLoopHead(fn, RetryPage(page), all_tokens)
    /\ UNCHANGED <<sent_keys, requested>>

\* await asyncio.sleep(cooldown) ends: continue
Cooldown ==
    /\ pc = "cooldown"
    /\ fn \in Returning
    /\ sessions' = IF SessionSpansHandling(fn) THEN CloseSession(sessions) ELSE sessions
    /\ Continue
    /\ UNCHANGED <<inputs, outer, answered>>

----------------------------------------------------------------------------
(* TheGraphClient.get_token_balances and get_all_token_balances *)

\* get_token_balances for page p when the upstream answers a: the list it
\* returns, or the ValueError it raises
get_token_balances(a, p) ==
    IF a.kind = "ok"
    THEN Return(PageItems(p, a.n), None)
    ELSE IF a.kind = "status"
    THEN IF a.code = 401 THEN Raise(AuthenticationFailed)
         ELSE IF a.code = 403 THEN Raise(AccessForbidden)
         ELSE IF a.code = 429 THEN Raise(RateLimitExceeded)
         ELSE Raise(HttpError(a.code))
    ELSE Raise(ErrorFetchingTokenBalances)

\* faulty variant: the rate-limit message is not recognized
IsRateLimitMessage_Never(message) == FALSE

\* if "rate limit" in error_message.lower():
IsRateLimitMessage(message) == message = RateLimitExceeded

\* except ValueError, not a rate limit: raise
Reraise(tokens, message) == Raise(message)

\* The call is entered and runs to its first suspension point.
ClientCall ==
    /\ pc = "idle"
    /\ fn = "client"
    /\ ToLoopHead(fn, 1, <<>>)
    /\ UNCHANGED <<inputs, outer, sessions, sent_keys, requested, answered>>

\* await asyncio.sleep(REQUEST_DELAY) ends and get_token_balances is called:
\* it returns [] for an unrecognized network, and else sends the request
ClientRequest ==
    /\ pc = "delay"
    /\ fn = "client"
    /\ IF get_chain_info(network) = NoChain
       THEN /\ Finish(page, all_tokens, Return(all_tokens, None))
            /\ UNCHANGED <<requested, sent_keys>>
       ELSE /\ pc' = "request"
            /\ requested' = Append(requested, page)
            /\ sent_keys' = Sent(sent_keys)
            /\ UNCHANGED <<page, all_tokens, result>>
    /\ UNCHANGED <<inputs, outer, sessions, answered>>

ClientRespond(a) ==
    /\ pc = "request"
    /\ fn = "client"
    /\ answered' = Append(answered, a)
    /\ LET r == get_token_balances(a, page) IN
       IF r.raised
       THEN IF IsRateLimitMessage(r.error)
            THEN /\ pc' = "cooldown"
                 /\ UNCHANGED <<page, all_tokens, result>>
            ELSE Finish(page, all_tokens, Reraise(all_tokens, r.error))
       ELSE IF Len(r.tokens) = 0
       THEN Finish(page, all_tokens, Return(all_tokens, None))
       ELSE LET tokens == all_tokens \o r.tokens IN
            IF IsLastPage(Len(r.tokens))
            THEN Finish(page, tokens, Return(tokens, None))
            ELSE ToLoopHead(fn, NextPage(page), tokens)
    /\ UNCHANGED <<inputs, outer, sessions, sent_keys, requested>>

\* await asyncio.sleep(5) ends: continue
ClientCooldown ==
    /\ pc = "cooldown"
    /\ fn = "client"
    /\ Continue
    /\ UNCHANGED <<inputs, outer, sessions, answered>>

----------------------------------------------------------------------------
(* TheGraphClient.get_native_balance *)

\* the amount and balance fields of the first entry of a native answer
Amounts == {"0", "00", "", "1500000000000000000"}
Balances == {None, "0", "7"}

NativeOk(items) == [kind |-> "ok", code |-> 200, items |-> items]
NativeStatus(c) == [kind |-> "status", code |-> c, items |-> <<>>]
NativeFailed(k) == [kind |-> k, code |-> 0, items |-> <<>>]

NativeAnswers ==
    {NativeOk(<<>>)}
      \cup {NativeOk(<<[amount |-> a, balance |-> b]>>) : a \in Amounts, b \in Balances}
      \cup {NativeStatus(c) : c \in {401, 403, 429} \cup OtherStatuses}
      \cup {NativeFailed(k) : k \in ExceptionKinds}

\* float(s) / 1e18 == 0
FloatIsZero(s) == s \in {"0", "00"}

ErrorFetchingNativeBalance == "Error fetching native balance: <str(e)>"

NoBalance == [chain_id |-> None, chain_name |-> None, balance |-> None,
              symbol |-> None, price_usd |-> None]

ReturnValue(v) == [raised |-> FALSE, value |-> v, error |-> None]
RaiseValue(message) == [raised |-> TRUE, value |-> NoBalance, error |-> message]

\* the body of the try block for a 2xx answer with data list items
NativeBalanceOf(chain_info, items) ==
    IF Len(items) > 0
    THEN LET native_balance == items[1]
             balance_wei == Or(Or(native_balance.amount, native_balance.balance), "0")
         IN  IF Truthy(balance_wei) /\ balance_wei # "0"
             THEN IF FloatIsZero(balance_wei)
                  THEN NoBalance
                  ELSE [chain_id |-> chain_info.chain_id,
                        chain_name |-> chain_info.name,
                        balance |-> balance_wei,
                        symbol |-> chain_info.native_symbol,
                        price_usd |-> "0"]
             ELSE NoBalance
    ELSE NoBalance

\* The call is entered: None for an unrecognized network, else the request is sent.
NativeCall ==
    /\ pc = "idle"
    /\ fn = "native"
    /\ IF get_chain_info(network) = NoChain
       THEN /\ pc' = "done"
            /\ result' = ReturnValue(NoBalance)
            /\ UNCHANGED <<requested, sent_keys>>
       ELSE /\ pc' = "request"
            /\ requested' = Append(requested, 1)
            /\ sent_keys' = Sent(sent_keys)
            /\ UNCHANGED result
    /\ UNCHANGED <<inputs, outer, sessions, page, all_tokens, answered>>

NativeRespond(a) ==
    /\ pc = "request"
    /\ fn = "native"
    /\ answered' = Append(answered, a)
    /\ pc' = "done"
    /\ result' =
         IF a.kind = "ok"
         THEN ReturnValue(NativeBalanceOf(get_chain_info(network), a.items))
         ELSE IF a.kind = "status"
         THEN IF a.code = 401 THEN RaiseValue(AuthenticationFailed)
              ELSE IF a.code = 403 THEN RaiseValue(AccessForbidden)
              ELSE IF a.code = 429 THEN RaiseValue(RateLimitExceeded)
              ELSE RaiseValue(HttpError(a.code))
         ELSE RaiseValue(ErrorFetchingNativeBalance)
    /\ UNCHANGED <<inputs, outer, sessions, sent_keys, page, all_tokens, requested>>

----------------------------------------------------------------------------
(* get_native_eth_balance_thegraph and get_native_base_balance_thegraph *)

NativeFunctions == {"native_eth", "native_base"}

\* the chain a per-chain function is written for
ChainOf(f) == IF f \in {"native_eth", "ethereum", "token_eth"} THEN "ethereum" ELSE "base"
\* "chain_name": ..., "chain_id": ... as the per-chain functions spell them out
ChainName(f) == IF ChainOf(f) = "ethereum" THEN "Ethereum" ELSE "Base"
ChainId(f) == IF ChainOf(f) = "ethereum" THEN "1" ELSE "8453"

NetworkInfoNotFound(f) ==
    IF ChainOf(f) = "ethereum" THEN "Ethereum network info not found" ELSE "Base network info not found"
ErrorFetchingEthBalance(f) ==
    IF ChainOf(f) = "ethereum"
    THEN "Error fetching ETH balance: <str(e)>"
    ELSE "Error fetching Base ETH balance: <str(e)>"

\* the error records: they carry neither chain_name nor chain_id
NativeErrorRecord(symbol, error) ==
    [error |-> error, token_type |-> "native", token_symbol |-> symbol,
     token_address |-> "0x0", balance |-> "0", balance_raw |-> "0", decimals |-> 18]

\* the records of a 2xx answer
NativeRecord(symbol, name, id, balance, balance_raw) ==
    [token_type |-> "native", token_symbol |-> symbol, token_address |-> "0x0",
     balance |-> balance, balance_raw |-> balance_raw, decimals |-> 18,
     chain_name |-> name, chain_id |-> id, error |-> None]

\* f"{float(balance_wei) / 1e18:.18f}".rstrip("0").rstrip(".")
FormatWei(balance_wei) ==
    IF balance_wei = "1500000000000000000" THEN "1.5"
    ELSE IF balance_wei = "7" THEN "0.000000000000000007"
    ELSE "0"

\* faulty variant: an empty data list is reported as an error
EmptyDataRecord_Error(symbol, name, id) == NativeErrorRecord(symbol, "No balance data")

\* the return after "if data.get("data") and len(data["data"]) > 0:"
EmptyDataRecord(symbol, name, id) == NativeRecord(symbol, name, id, "0", "0")

\* return r
ReturnRecord(r) == [raised |-> FALSE, value |-> r, error |-> r.error]

\* the body of the "async with" block for a 2xx answer with data list items;
\* a balance of null makes float() raise, which "except Exception" turns into
\* the record with error message failure
NativeRecordOf(symbol, name, id, items, failure) ==
    IF Len(items) > 0
    THEN LET native_balance == items[1]
             balance_wei == Or(native_balance.amount, native_balance.balance)
         IN  IF balance_wei = "0"
             THEN NativeRecord(symbol, name, id, "0", "0")
             ELSE IF balance_wei = None
             THEN NativeErrorRecord(symbol, failure)
             ELSE NativeRecord(symbol, name, id, FormatWei(balance_wei), balance_wei)
    ELSE EmptyDataRecord(symbol, name, id)

\* The call is entered: an error record without an API key, else the session
\* is opened and the request is sent.
NativeChainCall ==
    /\ pc = "idle"
    /\ fn \in NativeFunctions
    /\ IF ~Truthy(EffectiveKey(api_key, env_key))
       THEN /\ pc' = "done"
            /\ result' = ReturnRecord(NativeErrorRecord("ETH", ApiKeyNotSet))
            /\ UNCHANGED <<sessions, sent_keys, requested>>
       ELSE IF get_chain_info(ChainOf(fn)) = NoChain
       THEN /\ pc' = "done"
            /\ result' = ReturnRecord(NativeErrorRecord("ETH", NetworkInfoNotFound(fn)))
            /\ UNCHANGED <<sessions, sent_keys, requested>>
       ELSE /\ pc' = "request"
            /\ sessions' = OpenSession(sessions)
            /\ sent_keys' = Sent(sent_keys)
            /\ requested' = Append(requested, 1)
            /\ UNCHANGED result
    /\ UNCHANGED <<inputs, outer, page, all_tokens, answered>>

\* The answer a arrives; every path leaves the "async with" block.
NativeChainRespond(a) ==
    /\ pc = "request"
    /\ fn \in NativeFunctions
    /\ answered' = Append(answered, a)
    /\ sessions' = CloseSession(sessions)
    /\ pc' = "done"
    /\ result' = ReturnRecord(
         IF a.kind = "ok"
         THEN NativeRecordOf("ETH", ChainName(fn), ChainId(fn), a.items,
                             ErrorFetchingEthBalance(fn))
         ELSE IF a.kind = "status"
         THEN IF a.code = 401 THEN NativeErrorRecord("ETH", AuthenticationFailed)
              ELSE IF a.code = 403 THEN NativeErrorRecord("ETH", AccessForbidden)
              ELSE IF a.code = 429 THEN NativeErrorRecord("ETH", RateLimitExceeded)
              ELSE NativeErrorRecord("ETH", HttpError(a.code))
         ELSE NativeErrorRecord("ETH", ErrorFetchingEthBalance(fn)))
    /\ UNCHANGED <<inputs, outer, sent_keys, page, all_tokens, requested>>

----------------------------------------------------------------------------
(* get_native_balance_thegraph *)

\* The assignment of query_params is indented into the "if not chain_info:"
\* block, behind that block's return.  When the network is supported the name
\* is unbound: evaluating the arguments of client.get raises UnboundLocalError
\* inside the "async with" block, before a request is sent, and
\* "except Exception" returns the error record.
NativeGenericCall ==
    /\ pc = "idle"
    /\ fn = "native_generic"
    /\ pc' = "done"
    /\ LET chain_info == get_chain_info(network) IN
       IF ~Truthy(EffectiveKey(api_key, env_key))
       THEN /\ result' = ReturnRecord(NativeErrorRecord("ETH", ApiKeyNotSet))
            /\ UNCHANGED sessions
       ELSE IF chain_info = NoChain
       THEN /\ result' = ReturnRecord(NativeErrorRecord("ETH", UnsupportedNetwork))
            /\ UNCHANGED sessions
       ELSE /\ result' = ReturnRecord(NativeErrorRecord(chain_info.native_symbol,
                                                        ErrorFetchingNativeBalance))
            /\ sessions' = CloseSession(OpenSession(sessions))
    /\ UNCHANGED <<inputs, outer, sent_keys, page, all_tokens, requested, answered>>

----------------------------------------------------------------------------
(* TheGraphClient: __init__, __aexit__, and one call of get_token_balances *)

\* TheGraphClient(api_key): ValueError without a key, else the session is opened
Construct ==
    /\ pc = "new"
    /\ fn \in ClientMethods
    /\ IF ~Truthy(EffectiveKey(api_key, env_key))
       THEN /\ pc' = "done"
            /\ result' = Raise(ApiKeyRequired)
            /\ UNCHANGED sessions
       ELSE /\ pc' = "idle"
            /\ sessions' = OpenSession(sessions)
            /\ UNCHANGED result
    /\ UNCHANGED <<inputs, outer, sent_keys, page, all_tokens, requested, answered>>

\* what __aexit__ returns: it has no return statement
aexit_returns == None

\* The block of "async with TheGraphClient(...) as client:" is left, with the
\* value or the exception of the method called in it: __aexit__ closes the
\* session, and swallows the exception only if it returns a true value.
Exit ==
    /\ pc = "done"
    /\ fn \in ClientMethods
    /\ Truthy(EffectiveKey(api_key, env_key))
    /\ pc' = "exited"
    /\ sessions' = CloseSession(sessions)
    /\ result' = IF result.raised /\ Truthy(aexit_returns)
                 THEN [result EXCEPT !.raised = FALSE, !.error = None]
                 ELSE result
    /\ UNCHANGED <<inputs, outer, sent_keys, page, all_tokens, requested, answered>>

\* get_token_balances(address, network, page=page): [] for an unrecognized
\* network, else the request is sent
TokenPageCall ==
    /\ pc = "idle"
    /\ fn = "token_page"
    /\ IF get_chain_info(network) = NoChain
       THEN /\ pc' = "done"
            /\ result' = Return(<<>>, None)
            /\ UNCHANGED <<requested, sent_keys>>
       ELSE /\ pc' = "request"
            /\ requested' = Append(requested, page)
            /\ sent_keys' = Sent(sent_keys)
            /\ UNCHANGED result
    /\ UNCHANGED <<inputs, outer, sessions, page, all_tokens, answered>>

TokenPageRespond(a) ==
    /\ pc = "request"
    /\ fn = "token_page"
    /\ answered' = Append(answered, a)
    /\ pc' = "done"
    /\ result' = get_token_balances(a, page)
    /\ UNCHANGED <<inputs, outer, sessions, sent_keys, page, all_tokens, requested>>

----------------------------------------------------------------------------
(* The lookups of one token by symbol *)

ModuleLookups == {"token_eth", "token_base", "token_generic"}
Lookups == ModuleLookups \cup {"by_symbol"}

\* the paginator a lookup calls
PaginatorOf(c) ==
    IF c = "token_eth" THEN "ethereum"
    ELSE IF c = "token_base" THEN "base"
    ELSE IF c = "token_generic" THEN "generic"
    ELSE "client"

\* an entry of "tokens": the token_data dict the paginators build for entry id
TokenData(id, name, chain) ==
    [token_type |-> "ERC20", token_symbol |-> SymbolOf(id), token_id |-> id,
     chain_name |-> name, chain_id |-> chain, error |-> None]

\* the decimals field of entry id as the upstream reports it
Decimals == <<6, 0, 18>>
DecimalsOf(id) == Decimals[(id % 3) + 1]

\* x or y for ints
OrInt(x, y) == IF x # 0 THEN x ELSE y

\* str(10**decimals)
StrPow10(decimals) == <<"1">> \o [i \in 1..decimals |-> "0"]

\* decimals = balance.decimals or 18; divisor = str(10**decimals)
token_divisor(id) == StrPow10(OrInt(DecimalsOf(id), 18))

\* the TokenBalance get_token_balances builds for entry id, and Optional's None
TokenBalance(id, chain_info) ==
    [token_symbol |-> SymbolOf(id), token_id |-> id, token_divisor |-> token_divisor(id),
     chain_id |-> chain_info.chain_id, chain_name |-> chain_info.name]
NoToken == [token_symbol |-> None, token_id |-> 0, chain_id |-> None, chain_name |-> None]

\* the error records of the lookups, without and with chain_name and chain_id
TokenErrorRecord(symbol, error) ==
    [error |-> error, token_type |-> "ERC20", token_symbol |-> symbol,
     token_address |-> "", balance |-> "0", balance_raw |-> "0", decimals |-> 18]
TokenChainErrorRecord(symbol, error, name, chain) ==
    [error |-> error, token_type |-> "ERC20", token_symbol |-> symbol,
     token_address |-> "", balance |-> "0", balance_raw |-> "0", decimals |-> 18,
     chain_name |-> name, chain_id |-> chain]

TokenNotFound(symbol, f) ==
    IF f = "ethereum" THEN "Token <SYMBOL> not found for <account_address> on Ethereum"
    ELSE IF f = "base" THEN "Token <SYMBOL> not found for <account_address> on Base"
    ELSE "Token <SYMBOL> not found for <account_address> on <network>"

\* faulty variant: the symbols are compared as they are written
SymbolMatches_CaseSensitive(stored, query) == stored = query

\* token.get("token_symbol", "").upper() == token_symbol.upper()
SymbolMatches(stored, query) == Upper(stored) = Upper(query)

\* for token in tokens: if <match>: return token -- the id of the first match, or 0
FirstMatch(tokens, query) ==
    LET matches == SelectSeq(tokens, LAMBDA id : SymbolMatches(SymbolOf(id), query)) IN
    IF matches = <<>> THEN 0 ELSE Head(matches)

\* the loop of the lookup reads a null token_symbol as ""
NullSafe(c) == c = "token_base"

AttributeErrorNoneUpper == "'NoneType' object has no attribute 'upper'"

\* token.get("token_symbol", "").upper() is reached for an entry whose
\* token_symbol is None before any entry has matched
ScanRaises(tokens, query, c) ==
    /\ ~NullSafe(c)
    /\ null_symbols # {}
    /\ LET hits == SelectSeq(tokens, LAMBDA id : id \in null_symbols
                                                  \/ SymbolMatches(SymbolOf(id), query))
       IN  hits # <<>> /\ Head(hits) \in null_symbols

\* an exception leaves the lookup
RaiseFromLookup(message) == [raised |-> TRUE, value |-> NoToken, error |-> message]

\* faulty variant: the record of a miss carries the symbol as it was asked for
NotFoundSymbol_AsGiven(query) == query

\* "token_symbol": token_symbol.upper()
NotFoundSymbol(query) == Upper(query)

\* A module-level lookup is entered: an error record without an API key or,
\* in get_token_balance_thegraph, for an unsupported network; else it calls
\* its paginator.
LookupCall ==
    /\ pc = "lookup"
    /\ caller \in ModuleLookups
    /\ IF ~Truthy(EffectiveKey(api_key, env_key))
       THEN /\ pc' = "returned"
            /\ outer' = ReturnRecord(TokenErrorRecord(Upper(token_symbol), ApiKeyNotSet))
       ELSE IF caller = "token_generic" /\ get_chain_info(network) = NoChain
       THEN /\ pc' = "returned"
            /\ outer' = ReturnRecord(TokenErrorRecord(Upper(token_symbol), UnsupportedNetwork))
       ELSE /\ pc' = "idle"
            /\ UNCHANGED outer
    /\ UNCHANGED <<inputs, sessions, sent_keys, page, all_tokens, result, requested, answered>>

\* faulty variant: the error counts only when no token was gathered
HasError_OnlyWithoutTokens(r) == "error" \in DOMAIN r /\ Truthy(r.error) /\ r.tokens = <<>>

\* if "error" in all_tokens and all_tokens.get("error"):
HasError(r) == "error" \in DOMAIN r /\ Truthy(r.error)

\* The paginator has returned all_tokens = {"tokens", "error"} to the lookup.
Resolve ==
    /\ pc = "done"
    /\ caller \in ModuleLookups
    /\ pc' = "returned"
    /\ outer' =
         IF caller = "token_generic"
         THEN \* if "error" in all_tokens: return all_tokens
              IF "error" \in DOMAIN result
              THEN [raised |-> FALSE,
                    value |-> [tokens |-> result.tokens, error |-> result.error],
                    error |-> result.error]
              ELSE IF ScanRaises(result.tokens, token_symbol, caller)
              THEN RaiseFromLookup(AttributeErrorNoneUpper)
              ELSE LET id == FirstMatch(result.tokens, token_symbol)
                       chain_info == get_chain_info(network)
                   IN  IF id # 0
                       THEN ReturnRecord(TokenData(id, chain_info.name, chain_info.chain_id))
                       ELSE ReturnRecord(TokenErrorRecord(NotFoundSymbol(token_symbol),
                                                          TokenNotFound(token_symbol, fn)))
         ELSE \* if "error" in all_tokens and all_tokens.get("error"):
              IF HasError(result)
              THEN ReturnRecord(TokenChainErrorRecord(Upper(token_symbol), result.error,
                                                      ChainName(fn), ChainId(fn)))
              ELSE IF ScanRaises(result.tokens, token_symbol, caller)
              THEN RaiseFromLookup(AttributeErrorNoneUpper)
              ELSE LET id == FirstMatch(result.tokens, token_symbol) IN
                   IF id # 0
                   THEN ReturnRecord(TokenData(id, ChainName(fn), ChainId(fn)))
                   ELSE ReturnRecord(TokenChainErrorRecord(NotFoundSymbol(token_symbol),
                                                           TokenNotFound(token_symbol, fn),
                                                           ChainName(fn), ChainId(fn)))
    /\ UNCHANGED <<inputs, sessions, sent_keys, page, all_tokens, result, requested, answered>>

\* get_all_token_balances has returned to, or raised in, get_token_balance_by_symbol
ClientResolve ==
    /\ pc = "done"
    /\ caller = "by_symbol"
    /\ pc' = "returned"
    /\ outer' =
         IF result.raised
         THEN [raised |-> TRUE, value |-> NoToken, error |-> result.error]
         ELSE LET id == FirstMatch(result.tokens, token_symbol) IN
              IF id # 0
              THEN ReturnValue(TokenBalance(id, get_chain_info(network)))
              ELSE ReturnValue(NoToken)
    /\ UNCHANGED <<inputs, sessions, sent_keys, page, all_tokens, result, requested, answered>>

----------------------------------------------------------------------------

\* no filter; a filter in another casing than the stored symbols; a filter that
\* matches no stored symbol ("ETH" is a substring of "WETH")
Filters == {NoSymbols, SymbolList(<<"usdc", "Dai">>), SymbolList(<<"ETH">>)}

Functions == {"ethereum", "base", "generic", "client", "native"}

\* one call runs alone, on the registry as the module defines it, for the
\* wallet whose tokens are numbered from 1
OneCall ==
    /\ registry = SUPPORTED_CHAINS
    /\ args = None
    /\ address = 0
    /\ peer = <<>>

Init ==
    /\ OneCall
    /\ null_symbols = {}
    /\ fn \in Functions
    /\ network \in (IF fn \in {"generic", "client", "native"} THEN Networks ELSE {None})
    /\ token_symbols \in (IF fn \in PerChain THEN Filters ELSE {NoSymbols})
    /\ api_key = "param-key"
    /\ env_key = None
    /\ caller = None
    /\ token_symbol = None
    /\ outer = Pending
    /\ sessions = (IF fn \in ClientMethods THEN OpenSession(0) ELSE 0)
    /\ sent_keys = {}
    /\ pc = "idle"
    /\ page = 0
    /\ all_tokens = <<>>
    /\ result = Pending
    /\ requested = <<>>
    /\ answered = <<>>

Next ==
    \/ Call
    \/ Request
    \/ \E a \in PageAnswers(fn, page) : Respond(a)
    \/ Cooldown
    \/ ClientCall
    \/ ClientRequest
    \/ \E a \in PageAnswers(fn, page) : ClientRespond(a)
    \/ ClientCooldown
    \/ NativeCall
    \/ \E a \in NativeAnswers : NativeRespond(a)

Spec == Init /\ [][Next]_vars

\* the event loop resumes every coroutine whose sleep ended or whose answer arrived
FairSpec == Spec /\ WF_vars(Next)

\* one call of a paginator with a page ceiling, under the same fairness
PerChainInit == Init /\ fn \in PerChain
PerChainNext ==
    \/ Call
    \/ Request
    \/ \E a \in PageAnswers(fn, page) : Respond(a)
    \/ Cooldown
PerChainFairSpec == PerChainInit /\ [][PerChainNext]_vars /\ WF_vars(PerChainNext)

\* the symbols asked for: another casing of a stored symbol ("usdc", "DAI"),
\* a substring of one ("ETH" of "WETH") and a prefix of one ("USD" of "USDC")
Queries == {"usdc", "DAI", "ETH", "USD"}

\* the values of the api_key argument and of the environment variable
ParamKeys == {None, "", "param-key"}
EnvKeys == {None, "", "env-key"}

\* the combinations a paginator is called with: no key, an empty key, the
\* environment alone, and both
PaginatorKeys == {<<None, None>>, <<"", "">>, <<None, "env-key">>, <<"param-key", "env-key">>}

SingleRequests == {"native", "token_page", "native_eth", "native_base", "native_generic"}

\* One call of a single-request function with every combination of the api_key
\* argument and the environment, of a paginator with the combinations of
\* PaginatorKeys, or of a module-level lookup without a key; the methods of
\* TheGraphClient are called in "async with TheGraphClient(api_key) as client:".
CallInit ==
    /\ OneCall
    /\ null_symbols = {}
    /\ \/ /\ caller = None
          /\ fn \in SingleRequests \cup Paginators
          /\ token_symbol = None
          /\ network \in (IF fn \in {"native", "token_page", "native_generic"} THEN Networks
                          ELSE IF fn = "generic" THEN {"BASE"}
                          ELSE IF fn = "client" THEN {"BASE", "notachain"}
                          ELSE {None})
          /\ api_key \in ParamKeys
          /\ env_key \in EnvKeys
          /\ fn \in Paginators => <<api_key, env_key>> \in PaginatorKeys
          /\ pc = (IF fn \in ClientMethods THEN "new" ELSE "idle")
       \/ /\ caller \in ModuleLookups
          /\ fn = PaginatorOf(caller)
          /\ token_symbol \in Queries
          /\ network \in (IF caller = "token_generic" THEN {"ethereum"} ELSE {None})
          /\ api_key \in {None, ""}
          /\ env_key \in {None, ""}
          /\ pc = "lookup"
    /\ token_symbols = NoSymbols
    /\ outer = Pending
    /\ sessions = 0
    /\ sent_keys = {}
    /\ page \in (IF fn = "token_page" THEN 1..2 ELSE {0})
    /\ all_tokens = <<>>
    /\ result = Pending
    /\ requested = <<>>
    /\ answered = <<>>

CallNext ==
    \/ Call
    \/ Request
    \/ \E a \in PageAnswers(fn, page) : Respond(a)
    \/ Cooldown
    \/ ClientCall
    \/ ClientRequest
    \/ \E a \in PageAnswers(fn, page) : ClientRespond(a)
    \/ ClientCooldown
    \/ NativeCall
    \/ \E a \in NativeAnswers : NativeRespond(a)
    \/ NativeChainCall
    \/ \E a \in NativeAnswers : NativeChainRespond(a)
    \/ NativeGenericCall
    \/ Construct
    \/ Exit
    \/ TokenPageCall
    \/ \E a \in PageAnswers(fn, page) : TokenPageRespond(a)
    \/ LookupCall

CallSpec == CallInit /\ [][CallNext]_vars

\* One lookup of a token by symbol, with an API key and an upstream that does
\* not answer 429; for by_symbol the client is constructed.
LookupStart ==
    /\ OneCall
    /\ caller \in Lookups
    /\ fn = PaginatorOf(caller)
    /\ network \in (IF caller \in {"token_generic", "by_symbol"}
                    THEN {"ethereum", "notachain"} ELSE {None})
    /\ token_symbols = NoSymbols
    /\ api_key = "param-key"
    /\ env_key = None
    /\ token_symbol \in Queries
    /\ outer = Pending
    /\ sessions = (IF caller = "by_symbol" THEN OpenSession(0) ELSE 0)
    /\ sent_keys = {}
    /\ pc = (IF caller \in ModuleLookups THEN "lookup" ELSE "idle")
    /\ page = 0
    /\ all_tokens = <<>>
    /\ result = Pending
    /\ requested = <<>>
    /\ answered = <<>>

\* every entry of the upstream has a symbol
LookupInit == LookupStart /\ null_symbols = {}

LookupNext ==
    \/ LookupCall
    \/ Call
    \/ Request
    \/ \E a \in PageAnswers(fn, page) : Respond(a)
    \/ Resolve
    \/ ClientCall
    \/ ClientRequest
    \/ \E a \in PageAnswers(fn, page) : ClientRespond(a)
    \/ ClientResolve

LookupSpec == LookupInit /\ [][LookupNext]_vars

----------------------------------------------------------------------------
(* Vocabulary of the properties *)

Done == pc = "done"
Last(s) == s[Len(s)]

\* the call was made with a network the registry knows
SupportedNetwork == fn \in {"generic", "client", "native"} => get_chain_info(network) # NoChain

\* tokens 1..n of the wallet, in upstream order
Wallet(n) == [i \in 1..n |-> i]

\* the answers with index in 1..m are all full pages
FullPages(m) == \A i \in 1..m : IsFull(answered[i])

IsTerminalFailure(a) ==
    \/ a.kind \in ExceptionKinds
    \/ a.kind = "status" /\ a.code \in OtherStatuses
IsAuthFailure(a) == a.kind = "status" /\ a.code \in {401, 403}

RateLimitedAt == {i \in DOMAIN answered : Is429(answered[i])}
NotRateLimitedAt == DOMAIN answered \ RateLimitedAt

RECURSIVE ItemsServed(_)
\* the number of entries in the first m answers
ItemsServed(m) == IF m = 0 THEN 0 ELSE ItemsServed(m - 1) + answered[m].n

----------------------------------------------------------------------------
(* C1: when the upstream serves N full pages and then a page of k < 10      *)
(* entries, a paginator called without a symbol filter on a supported       *)
(* network does not stop before that page, and returns exactly the 10*N + k *)
(* tokens in upstream order, with no error, having requested the pages      *)
(* 1..N+1 once each.                                                        *)
C1_PaginationTermination ==
    (fn \in Paginators /\ SupportedNetwork /\ token_symbols = NoSymbols) =>
        LET m == Len(answered) IN
        /\ (FullPages(m) /\ (HasCeiling(fn) => m < max_pages(fn))) => ~Done
        /\ (m >= 1 /\ FullPages(m - 1) /\ IsOk(answered[m]) /\ answered[m].n < limit
              /\ (HasCeiling(fn) => m <= max_pages(fn))) =>
                /\ Done
                /\ ~result.raised
                /\ result.error = None
                /\ result.tokens = Wallet(limit * (m - 1) + answered[m].n)
                /\ requested = [i \in 1..m |-> i]

C1_Witness ==
    /\ fn = "client" /\ Done
    /\ Len(answered) = 4 /\ FullPages(3)
    /\ answered[4] = Ok(7)
    /\ Len(result.tokens) = 37

(* C2: in the ethereum, base and generic paginators, when pages 1..m were   *)
(* fetched as full pages and the request for page m+1 fails with a timeout, *)
(* a transport error or a status other than 2xx, 401, 403 and 429, the call *)
(* returns the retained tokens of pages 1..m in order and a non-empty error.*)
C2_PartialFailurePreserved ==
    (fn \in Returning /\ Len(answered) >= 1 /\ IsTerminalFailure(Last(answered))
        /\ FullPages(Len(answered) - 1)) =>
            /\ Done
            /\ ~result.raised
            /\ result.tokens = Retained(fn, Wallet(limit * (Len(answered) - 1)), token_symbols)
            /\ result.error \notin {None, ""}

C2_Witness ==
    /\ fn = "base" /\ token_symbols # NoSymbols /\ Done
    /\ Len(answered) = 3 /\ FullPages(2)
    /\ answered[3] = Failed("connect")
    /\ Len(result.tokens) > 0

(* C3: in the ethereum, base and generic paginators, when pages 1..m        *)
(* (m >= 1) were fetched and the request for page m+1 is answered 401 or    *)
(* 403, the returned tokens hold every token retained from pages 1..m,      *)
(* together with the error.                                                 *)
C3_AuthFailureKeepsTokens ==
    (fn \in Returning /\ Done /\ Len(answered) >= 2 /\ IsAuthFailure(Last(answered))
        /\ FullPages(Len(answered) - 1)) =>
            /\ result.tokens = Retained(fn, Wallet(limit * (Len(answered) - 1)), token_symbols)
            /\ result.error # None

(* C4: TheGraphClient.get_all_token_balances: when pages 1..m (m >= 1) were *)
(* fetched and the request for page m+1 fails with an error that is not a   *)
(* rate limit, the caller receives the tokens of pages 1..m and no          *)
(* exception.                                                               *)
C4_ClientKeepsPartialProgress ==
    (fn = "client" /\ Done /\ Len(answered) >= 2
        /\ (IsAuthFailure(Last(answered)) \/ IsTerminalFailure(Last(answered)))
        /\ FullPages(Len(answered) - 1)) =>
            /\ ~result.raised
            /\ result.tokens = Wallet(limit * (Len(answered) - 1))

(* C5: in the ethereum (ceiling 50) and base (ceiling 100) paginators, when *)
(* every request is answered with a full page, the call requests the pages  *)
(* 1..ceiling and no other, does not stop before, and returns all retained  *)
(* tokens with the error that names the maximum page limit.                 *)
C5_PageCeiling ==
    (fn \in PerChain /\ FullPages(Len(answered))) =>
        /\ Len(requested) <= max_pages(fn)
        /\ requested = [i \in 1..Len(requested) |-> i]
        /\ Len(answered) < max_pages(fn) => ~Done
        /\ Len(answered) = max_pages(fn) =>
              /\ Done
              /\ ~result.raised
              /\ result.tokens = Retained(fn, Wallet(limit * max_pages(fn)), token_symbols)
              /\ result.error = MaxPageLimitReached(fn)
              /\ result.error \notin {None, ""}

C5_Witness ==
    /\ fn = "ethereum" /\ Done
    /\ Len(answered) = max_pages_ethereum /\ FullPages(max_pages_ethereum)
    /\ Len(result.tokens) = limit * max_pages_ethereum
    /\ Last(requested) = max_pages_ethereum

(* C6: TheGraphClient.get_all_token_balances and                            *)
(* get_all_token_balances_thegraph stop at a page ceiling when every        *)
(* request is answered with a full page: no page above the largest ceiling  *)
(* of the repository (100) is requested.                                    *)
C6_BoundedPageRequests ==
    (fn \in {"generic", "client"} /\ FullPages(Len(answered))) =>
        \A i \in DOMAIN requested : requested[i] <= max_pages_base

(* C7: the ethereum and base paginators return once the upstream stops      *)
(* answering 429: every call leads to a return after at most ceiling        *)
(* requests that were not answered 429, and the 429 answers take nothing    *)
(* from the ceiling: when all other answers were full pages, ceiling of     *)
(* them were requested.                                                     *)
C7_Returned ==
    /\ Done
    /\ Cardinality(NotRateLimitedAt) <= max_pages(fn)
    /\ (\A i \in NotRateLimitedAt : IsFull(answered[i])) =>
          Cardinality(NotRateLimitedAt) = max_pages(fn)

C7_TerminationUnderRateLimit == (fn \in PerChain) ~> (fn \in PerChain /\ C7_Returned)

C7_Witness ==
    /\ fn = "ethereum" /\ C7_Returned
    /\ Cardinality(RateLimitedAt) = MaxRateLimited
    /\ Cardinality(NotRateLimitedAt) = max_pages_ethereum
    /\ Is429(answered[max_pages_ethereum])

C9_PageOrdering ==
    fn \in Paginators =>
        /\ Len(requested) - Len(answered) \in {0, 1}
        /\ \A i \in DOMAIN requested :
              IF i = 1
              THEN requested[i] = 1
              ELSE \/ Is429(answered[i - 1]) /\ requested[i] = requested[i - 1]
                   \/ IsFull(answered[i - 1]) /\ requested[i] = requested[i - 1] + 1

C9_Witness ==
    /\ fn = "ethereum"
    /\ Len(requested) = 5
    /\ requested = <<1, 1, 2, 2, 3>>
    /\ pc = "request"

(* C10: TheGraphClient.get_native_balance on a supported network returns a  *)
(* NativeBalance with balance "0" when the first entry of a successful      *)
(* answer has amount "0", and returns None only for an unrecognized network *)
(* or an answer without entries.                                            *)
C10_ZeroNativeBalance ==
    (fn = "native" /\ Done) =>
        /\ (SupportedNetwork /\ Len(answered) = 1 /\ IsOk(answered[1])
              /\ Len(answered[1].items) > 0 /\ answered[1].items[1].amount = "0") =>
                 /\ ~result.raised
                 /\ result.value # NoBalance
                 /\ result.value.balance = "0"
                 /\ result.value.chain_id = get_chain_info(network).chain_id
        /\ (~result.raised /\ result.value = NoBalance) =>
              \/ ~SupportedNetwork
              \/ Len(answered) = 1 /\ IsOk(answered[1]) /\ Len(answered[1].items) = 0

(* C11: when the answer to get_native_eth_balance_thegraph or               *)
(* get_native_base_balance_thegraph is a success whose data list is empty   *)
(* or whose first entry has amount "0", the record returned has balance "0",*)
(* balance_raw "0", error None, and the chain_name and chain_id the         *)
(* registry holds for the function's chain.                                 *)
C11_PerChainZeroNative ==
    (fn \in NativeFunctions /\ Done /\ Len(answered) = 1 /\ IsOk(answered[1])
        /\ (answered[1].items = <<>> \/ answered[1].items[1].amount = "0")) =>
            /\ ~result.raised
            /\ DOMAIN result.value = DOMAIN NativeRecord("", "", "", "", "")
            /\ result.value.balance = "0"
            /\ result.value.balance_raw = "0"
            /\ result.value.error = None
            /\ result.value.chain_name = get_chain_info(ChainOf(fn)).name
            /\ result.value.chain_id = get_chain_info(ChainOf(fn)).chain_id

C11_Witness ==
    /\ fn = "native_base" /\ Done
    /\ answered = <<NativeOk(<<>>)>>
    /\ result.value.chain_id = "8453"
    /\ result.value.error = None

(* C12: without an API key, in the argument and in the environment, no      *)
(* request is sent and no session is opened: TheGraphClient() raises the    *)
(* ValueError that names THEGRAPH_API_KEY, and every module-level function  *)
(* returns, in its first step, the error that names THEGRAPH_API_KEY, with  *)
(* an empty tokens list from the paginators.  With a key, the bearer token  *)
(* of every request is the api_key argument when that is non-empty, and the *)
(* environment's key otherwise.                                             *)
C12_ApiKeyRequired ==
    /\ (~Truthy(api_key) /\ ~Truthy(env_key)) =>
          /\ requested = <<>> /\ answered = <<>>
          /\ sent_keys = {}
          /\ sessions = 0
          /\ pc \in {"new", "idle", "lookup", "done", "returned"}
          /\ (pc = "done" /\ fn \in ClientMethods) =>
                result.raised /\ result.error = ApiKeyRequired
          /\ (pc = "done" /\ fn \notin ClientMethods) =>
                /\ ~result.raised
                /\ result.error = ApiKeyNotSet
                /\ fn \in Returning => result.tokens = <<>>
          /\ pc = "returned" => ~outer.raised /\ outer.error = ApiKeyNotSet
    /\ Truthy(api_key) => sent_keys \subseteq {api_key}
    /\ (~Truthy(api_key) /\ Truthy(env_key)) => sent_keys \subseteq {env_key}
    /\ requested # <<>> => sent_keys # {}

C12_Witness ==
    /\ api_key = "" /\ env_key = ""
    /\ fn = "base" /\ caller = None /\ Done
    /\ result = Return(<<>>, ApiKeyNotSet)
    /\ requested = <<>>

\* both keys are set, and the argument's was sent
C12_WitnessPreference ==
    /\ api_key = "param-key" /\ env_key = "env-key"
    /\ fn = "native_eth" /\ Done
    /\ sent_keys = {"param-key"}

(* C13: get_native_balance_thegraph, called with an API key and a supported *)
(* network, has sent exactly one request when it returns, and when that     *)
(* request was answered with a non-zero amount A it returns the record with *)
(* error None, balance_raw A, and the native symbol, name and id of the     *)
(* chain.  The code violates this: no request is sent.                      *)
C13_GenericNativeBalance ==
    (fn = "native_generic" /\ Done /\ Truthy(EffectiveKey(api_key, env_key))
        /\ get_chain_info(network) # NoChain) =>
            /\ Len(requested) = 1
            /\ Len(answered) = 1
            /\ (IsOk(answered[1]) /\ answered[1].items # <<>>
                  /\ answered[1].items[1].amount \notin {"", "0"}) =>
                    /\ result.value.error = None
                    /\ result.value.balance_raw = answered[1].items[1].amount
                    /\ result.value.token_symbol = get_chain_info(network).native_symbol
                    /\ result.value.chain_name = get_chain_info(network).name
                    /\ result.value.chain_id = get_chain_info(network).chain_id

\* the lookup has returned after its paginator completed with error None
LookupCompleted == caller \in Lookups /\ pc = "returned" /\ ~result.raised /\ result.error = None

\* the positions of the fetched tokens whose symbol, uppercased, is the
\* uppercased symbol asked for
MatchingPositions ==
    {i \in DOMAIN result.tokens : Upper(SymbolOf(result.tokens[i])) = Upper(token_symbol)}

\* the first of them
FirstMatchingPosition == CHOOSE i \in MatchingPositions : \A j \in MatchingPositions : i <= j

(* C14: when the paginated fetch of get_token_balance_thegraph completes    *)
(* with error None and holds a token whose symbol matches the one asked for *)
(* case-insensitively, the lookup returns the record of the first such      *)
(* token, a single record with token_type "ERC20", and not the              *)
(* {tokens, error} result.  The code violates this.                         *)
C14_GenericLookupReturnsToken ==
    (caller = "token_generic" /\ LookupCompleted /\ MatchingPositions # {}) =>
        /\ ~outer.raised
        /\ "tokens" \notin DOMAIN outer.value
        /\ DOMAIN outer.value = DOMAIN TokenData(0, "", "")
        /\ outer.value.token_type = "ERC20"
        /\ outer.value.token_id = result.tokens[FirstMatchingPosition]

\* the symbol asked for is a proper prefix or substring of a stored symbol
\* ("USD" of "USDC", "ETH" of "WETH") and equals none, in any casing
PrefixOrSubstringOnly == token_symbol \in {"USD", "ETH"}

\* the lookup reported that the wallet does not hold the token
Missed ==
    IF caller = "by_symbol"
    THEN ~outer.raised /\ outer.value = NoToken
    ELSE ~outer.raised /\ outer.error # None /\ "token_id" \notin DOMAIN outer.value

(* C15: in TheGraphClient.get_token_balance_by_symbol,                      *)
(* get_token_balance_ethereum_thegraph and get_token_balance_base_thegraph, *)
(* when the pagination completes without error, the token returned is the   *)
(* first fetched token, in upstream order, whose uppercased symbol equals   *)
(* the uppercased symbol asked for, whatever the casing of either; when     *)
(* there is none the lookup reports a miss, and a symbol that is only a     *)
(* prefix or a substring of a stored one is a miss.                         *)
C15_SymbolResolution ==
    (caller \in {"by_symbol", "token_eth", "token_base"} /\ LookupCompleted) =>
        /\ MatchingPositions # {} =>
              /\ ~outer.raised
              /\ outer.error = None
              /\ outer.value.token_id = result.tokens[FirstMatchingPosition]
              /\ outer.value.token_symbol = SymbolOf(result.tokens[FirstMatchingPosition])
        /\ MatchingPositions = {} => Missed
        /\ PrefixOrSubstringOnly => Missed

C15_Witness ==
    /\ caller = "token_base" /\ LookupCompleted
    /\ token_symbol = "DAI"
    /\ Len(result.tokens) = 14
    /\ outer.value.token_id = 1
    /\ outer.value.token_symbol = "dai"

(* C16: when get_token_balance_ethereum_thegraph or                         *)
(* get_token_balance_base_thegraph finds no token with the symbol asked for *)
(* among the tokens of a pagination that completed without error, it        *)
(* returns a record with token_type "ERC20", token_symbol the uppercased    *)
(* symbol asked for, balance "0", balance_raw "0" and the token-not-found   *)
(* error.                                                                   *)
C16_SymbolMiss ==
    (caller \in {"token_eth", "token_base"} /\ LookupCompleted /\ MatchingPositions = {}) =>
        /\ ~outer.raised
        /\ outer.value.token_type = "ERC20"
        /\ outer.value.token_symbol = Upper(token_symbol)
        /\ outer.value.balance = "0"
        /\ outer.value.balance_raw = "0"
        /\ outer.value.error # None
        /\ outer.value.error = TokenNotFound(token_symbol, fn)

C16_Witness ==
    /\ caller = "token_eth" /\ LookupCompleted
    /\ token_symbol = "usdc"
    /\ result.tokens = <<1, 2>>
    /\ outer.value.token_symbol = "USDC"
    /\ outer.value.error = TokenNotFound(token_symbol, fn)

\* the call has returned or raised (and the block around a method of
\* TheGraphClient may have been left)
Ended == pc \in {"done", "exited"}

(* C17: when the request of TheGraphClient.get_native_balance or            *)
(* get_token_balances is answered 401, 403, 429 or another non-2xx status,  *)
(* or fails with a timeout or a transport error, the method raises nothing  *)
(* and returns a value that carries the error.  The code violates this.     *)
C17_ClientErrorsReturned ==
    (fn \in {"native", "token_page"} /\ Ended /\ Len(answered) = 1 /\ ~IsOk(answered[1])) =>
        /\ ~result.raised
        /\ result.error # None

(* C18: when the request of get_native_eth_balance_thegraph,                *)
(* get_native_base_balance_thegraph or TheGraphClient.get_native_balance is *)
(* answered 429, the call does not end with the rate-limit error, returned  *)
(* or raised: it ends only after a further request.  The code violates      *)
(* this.                                                                    *)
C18_NativeRateLimitRetried ==
    (fn \in NativeFunctions \cup {"native"} /\ Ended /\ Len(answered) >= 1
        /\ Is429(answered[1])) =>
            /\ Len(requested) >= 2
            /\ result.error # RateLimitExceeded

\* the entries of the answers so far whose uppercased symbol is the uppercase
\* of an entry of the filter, in upstream order
FilteredItems ==
    SelectSeq(Wallet(ItemsServed(Len(answered))), LAMBDA id :
        \E i \in DOMAIN token_symbols.list : Upper(SymbolOf(id)) = Upper(token_symbols.list[i]))

\* the requests and the stop depend on the answers alone: the first request is
\* for page 1, the page advances exactly after a page of limit entries, and the
\* call goes on after a full page below the ceiling
RequestsIgnoreFilter ==
    /\ \A i \in DOMAIN requested :
          requested[i] = IF i = 1 THEN 1
                         ELSE requested[i - 1] + (IF IsFull(answered[i - 1]) THEN 1 ELSE 0)
    /\ (Len(answered) >= 1 /\ Len(answered) = Len(requested) /\ IsFull(Last(answered))
          /\ Last(requested) < max_pages(fn)) => ~Done

(* C19: in the ethereum and base paginators called with token_symbols, the  *)
(* tokens returned are exactly the entries of the fetched pages whose       *)
(* uppercased symbol equals the uppercase of a filter entry, in upstream    *)
(* order, and the requests and the stop are those of the unfiltered call: a *)
(* full page that is filtered out entirely does not end the pagination.     *)
(* The code violates the first part when a request is answered 401 or 403.  *)
C19_SymbolFilter ==
    (fn \in PerChain /\ token_symbols.given) =>
        /\ RequestsIgnoreFilter
        /\ Done => result.tokens = FilteredItems

\* the same, but for the calls that end with status 401 or 403: this holds
C19_SymbolFilterButAuthFailure ==
    (fn \in PerChain /\ token_symbols.given) =>
        /\ RequestsIgnoreFilter
        /\ (Done /\ ~(answered # <<>> /\ IsAuthFailure(Last(answered)))) =>
              result.tokens = FilteredItems

\* two full pages were filtered out entirely and the third was fetched
C19_WitnessFilteredOut ==
    /\ fn = "ethereum" /\ token_symbols = SymbolList(<<"ETH">>) /\ Done
    /\ Len(answered) = 3 /\ FullPages(2) /\ answered[3] = Ok(4)
    /\ result = Return(<<>>, None)

(* C20: when the block of "async with TheGraphClient(...)" has been left,   *)
(* the client's session is closed, whether the method called in the block   *)
(* returned or raised, and what it raised is still raised; and when a       *)
(* module-level function has returned, on success, on an error status, on a *)
(* timeout or on a transport failure, no session it opened is open.  At no  *)
(* time is more than one session open.                                      *)
C20_SessionRelease ==
    /\ sessions \in {0, 1}
    /\ (fn \in ClientMethods /\ pc = "exited") =>
          /\ sessions = 0
          /\ (answered # <<>> /\ ~IsOk(Last(answered))) => result.raised
    /\ (fn \notin ClientMethods /\ pc \in {"done", "returned"}) => sessions = 0

C20_Witness ==
    /\ fn = "native" /\ pc = "exited"
    /\ answered = <<NativeFailed("timeout")>>
    /\ result.raised
    /\ sessions = 0

\* a per-chain function has returned after a transport failure on page 2
C20_WitnessPerChain ==
    /\ fn = "base" /\ Done
    /\ Len(answered) = 2 /\ answered[2] = Failed("connect")
    /\ sessions = 0

----------------------------------------------------------------------------
(* The functions of thegraph/utils.py, called with one argument drawn from a *)
(* bounded set.                                                              *)

\* strings passed to get_chain_info: the names in several casings, the chain
\* ids, and strings the registry does not hold (network_name values, native
\* symbols, ids with padding or blanks)
NetworkStrings ==
    DOMAIN LowerOf \cup DOMAIN NETWORK_NAME_TO_CHAIN_ID \cup DOMAIN SUPPORTED_CHAINS
    \cup {"", "notachain", "mainnet", "arbitrum-one", "matic", "eth", "0", "01",
          "ethereum ", "1 ", "0x1", "137.0"}

GetChainInfo ==
    /\ fn = "get_chain_info"
    /\ pc = "idle"
    /\ pc' = "done"
    /\ result' = ReturnValue(get_chain_info(args))
    /\ UNCHANGED <<inputs, outer, sessions, sent_keys, page, all_tokens, requested, answered>>

----------------------------------------------------------------------------
(* C21: get_chain_info is a total lookup without side effects: for each of  *)
(* the seven supported networks, the canonical name in any letter case and  *)
(* the chain-id string resolve to the same ChainInfo, whose chain_id equals *)
(* that id; every other string yields None; and the registry is never       *)
(* changed.                                                                 *)
CanonicalIds ==
    [ethereum |-> "1", polygon |-> "137", base |-> "8453", arbitrum |-> "42161",
     optimism |-> "10", bsc |-> "56", avalanche |-> "43114"]

\* the spellings of a canonical name that differ in letter case only
Casings ==
    [ethereum |-> {"ethereum", "ETHEREUM", "Ethereum", "eThErEuM"},
     polygon |-> {"polygon", "POLYGON", "Polygon", "polyGON"},
     base |-> {"base", "BASE", "Base", "bAsE"},
     arbitrum |-> {"arbitrum", "ARBITRUM", "Arbitrum", "arbitruM"},
     optimism |-> {"optimism", "OPTIMISM", "Optimism", "OPtimism"},
     bsc |-> {"bsc", "BSC", "Bsc", "bSc"},
     avalanche |-> {"avalanche", "AVALANCHE", "Avalanche", "avaLANche"}]

Recognized(s) == {n \in DOMAIN CanonicalIds : s \in Casings[n] \cup {CanonicalIds[n]}}

C21_ChainLookup ==
    /\ registry = SUPPORTED_CHAINS
    /\ Cardinality(DOMAIN CanonicalIds) = 7
    /\ (fn = "get_chain_info" /\ Done) =>
          /\ ~result.raised
          /\ \A n \in Recognized(args) :
                /\ CanonicalIds[n] \in DOMAIN registry
                /\ result.value = registry[CanonicalIds[n]]
                /\ result.value.chain_id = CanonicalIds[n]
          /\ Recognized(args) = {} => result.value = NoChain

\* a name in mixed case has been resolved
C21_Witness ==
    /\ fn = "get_chain_info" /\ Done
    /\ args = "avaLANche"
    /\ result.value = ChainInfo("43114", "Avalanche", "AVAX", "avalanche")

\* a network_name of the registry is not a key of the lookup
C21_WitnessUnknown ==
    /\ fn = "get_chain_info" /\ Done
    /\ args = "arbitrum-one"
    /\ result.value = NoChain

----------------------------------------------------------------------------
(* format_token_balance.  A string of digits is a sequence of one-character *)
(* strings; str() and int() convert between it and the number.              *)

\* the largest raw quantity and the largest number of decimals that are drawn
MaxRaw == 1500
MaxDecimals == 3

DigitChars == <<"0", "1", "2", "3", "4", "5", "6", "7", "8", "9">>
DigitChar(k) == DigitChars[k + 1]
IsDigit(c) == \E k \in 0..9 : DigitChars[k + 1] = c
DigitValue(c) == CHOOSE k \in 0..9 : DigitChars[k + 1] = c

\* str(n) of a non-negative int
RECURSIVE Str(_)
Str(n) == IF n < 10 THEN <<DigitChar(n)>> ELSE Str(n \div 10) \o <<DigitChar(n % 10)>>

\* int(s) succeeds
IsNumeric(s) == s # <<>> /\ \A i \in 1..Len(s) : IsDigit(s[i])
\* int(s)
RECURSIVE ParseInt(_)
ParseInt(s) == IF s = <<>> THEN 0 ELSE ParseInt(SubSeq(s, 1, Len(s) - 1)) * 10 + DigitValue(s[Len(s)])

\* faulty variant: the remainder is not padded
ZFill_None(s, width) == s
\* s.zfill(width)
ZFill(s, width) == IF Len(s) >= width THEN s ELSE [i \in 1..(width - Len(s)) |-> "0"] \o s

\* s.rstrip("0")
RECURSIVE RStripZeros(_)
RStripZeros(s) ==
    IF s # <<>> /\ s[Len(s)] = "0" THEN RStripZeros(SubSeq(s, 1, Len(s) - 1)) ELSE s

ErrorFormattingBalance == <<"Error formatting balance: ">>

format_token_balance(quantity, divisor) ==
    IF quantity = <<>> \/ quantity = <<"0">> THEN <<"0">>
    ELSE IF ~IsNumeric(quantity) \/ ~IsNumeric(divisor) THEN ErrorFormattingBalance
    ELSE LET quantity_int == ParseInt(quantity)
             divisor_int == ParseInt(divisor)
         IN  IF divisor_int = 0 THEN Str(quantity_int)
             ELSE LET whole_part == quantity_int \div divisor_int
                      fractional_part == quantity_int % divisor_int
                      fractional_str ==
                          RStripZeros(ZFill(Str(fractional_part), Len(Str(divisor_int)) - 1))
                  IN  IF fractional_part = 0 THEN Str(whole_part)
                      ELSE IF fractional_str # <<>>
                           THEN Str(whole_part) \o <<".">> \o fractional_str
                           ELSE Str(whole_part)

\* the arguments str(raw) and str(10^d); raw and d are kept beside them
BalanceArgs(raw, d) == [quantity |-> Str(raw), divisor |-> Str(10^d), raw |-> raw, d |-> d]

\* an empty quantity, a divisor of zero, a quantity that is no number
OtherBalanceArgs ==
    {[quantity |-> <<>>, divisor |-> Str(10), raw |-> -1, d |-> -1],
     [quantity |-> Str(7), divisor |-> Str(0), raw |-> -1, d |-> -1],
     [quantity |-> <<"x">>, divisor |-> Str(10), raw |-> -1, d |-> -1]}

FormatTokenBalance ==
    /\ fn = "format_token_balance"
    /\ pc = "idle"
    /\ pc' = "done"
    /\ result' = ReturnValue(format_token_balance(args.quantity, args.divisor))
    /\ UNCHANGED <<inputs, outer, sessions, sent_keys, page, all_tokens, requested, answered>>

----------------------------------------------------------------------------
(* format_usd_value.  A float is its sign and its magnitude m * 10^e with   *)
(* m in 1..9 (m = 0: the value 0), or not a number.  The formatted text is  *)
(* a sequence of pieces: literal text, and the digits a format              *)
(* specification produces for a magnitude.                                  *)

Mantissas == {0, 1, 5}
Exponents == -8..19

Float(neg, m, e) == [kind |-> "number", neg |-> neg, m |-> m, e |-> e]
NaN == [kind |-> "nan", neg |-> FALSE, m |-> 0, e |-> 0]
Floats == {Float(neg, m, e) : neg \in BOOLEAN, m \in Mantissas, e \in Exponents} \cup {NaN}

Text(t) == [text |-> t, m |-> 0, e |-> 0]
DigitsOf(spec, m, e) == [text |-> spec, m |-> m, e |-> e]

\* f"{x:spec}": a minus sign for a negative x, then the digits of its magnitude
FormatFloat(x, spec) ==
    (IF x.neg THEN <<Text("-")>> ELSE <<>>) \o <<DigitsOf(spec, x.m, x.e)>>

\* abs(x), -x, x / 10^k
Abs(x) == [x EXCEPT !.neg = FALSE]
Negated(x) == [x EXCEPT !.neg = ~x.neg]
Scaled(x, k) == [x EXCEPT !.e = x.e - k]
\* x < 10^k and x >= 10^k for a positive x
Below(x, k) == x.e < k
AtLeast(x, k) == x.e >= k

format_usd_value(value) ==
    IF value.kind = "nan" \/ value.m = 0 THEN <<Text("$0.00")>>
    ELSE LET abs_value == Abs(value)
             sign == IF value.neg THEN <<Text("-")>> ELSE <<>>
             Suffixed(k, suffix) ==
                 sign \o <<Text("$")>> \o FormatFloat(Scaled(abs_value, k), ",.2f")
                      \o <<Text(suffix)>>
         IN  IF Below(abs_value, -6) THEN sign \o <<Text("$")>> \o FormatFloat(value, ".2e")
             ELSE IF Below(abs_value, -2)
                  THEN sign \o <<Text("$")>> \o FormatFloat(value, ".6f")
             ELSE IF AtLeast(abs_value, 18) THEN Suffixed(18, "Qi")
             ELSE IF AtLeast(abs_value, 15) THEN Suffixed(15, "Qa")
             ELSE IF AtLeast(abs_value, 12) THEN Suffixed(12, "T")
             ELSE IF AtLeast(abs_value, 9) THEN Suffixed(9, "B")
             ELSE IF AtLeast(abs_value, 6) THEN Suffixed(6, "M")
             ELSE IF AtLeast(abs_value, 3) THEN Suffixed(3, "K")
             ELSE sign \o <<Text("$")>> \o FormatFloat(value, ",.2f")

FormatUsdValue ==
    /\ fn = "format_usd_value"
    /\ pc = "idle"
    /\ pc' = "done"
    /\ result' = ReturnValue(format_usd_value(args))
    /\ UNCHANGED <<inputs, outer, sessions, sent_keys, page, all_tokens, requested, answered>>

----------------------------------------------------------------------------
(* One call of a function of thegraph/utils.py *)

UtilFunctions == {"get_chain_info", "format_token_balance", "format_usd_value"}

UtilsInit ==
    /\ fn \in UtilFunctions
    /\ args \in (CASE fn = "get_chain_info" -> NetworkStrings
                   [] fn = "format_token_balance" ->
                        {BalanceArgs(raw, d) : raw \in 0..MaxRaw, d \in 0..MaxDecimals}
                        \cup OtherBalanceArgs
                   [] fn = "format_usd_value" -> Floats)
    /\ registry = SUPPORTED_CHAINS
    /\ null_symbols = {}
    /\ address = 0
    /\ peer = <<>>
    /\ network = None
    /\ token_symbols = NoSymbols
    /\ api_key = None
    /\ env_key = None
    /\ caller = None
    /\ token_symbol = None
    /\ outer = Pending
    /\ sessions = 0
    /\ sent_keys = {}
    /\ pc = "idle"
    /\ page = 0
    /\ all_tokens = <<>>
    /\ result = Pending
    /\ requested = <<>>
    /\ answered = <<>>

UtilsNext ==
    \/ GetChainInfo
    \/ FormatTokenBalance
    \/ FormatUsdValue

UtilsSpec == UtilsInit /\ [][UtilsNext]_vars

----------------------------------------------------------------------------
(* C22: format_token_balance is exact: for every non-negative integer raw   *)
(* and every divisor 10^d, format_token_balance(str(raw), str(10^d)) is     *)
(* str(raw // 10^d) when the remainder is 0, and otherwise the whole part,  *)
(* a dot, and the remainder left-padded with zeros to d digits with         *)
(* trailing zeros removed; reading the result back as a decimal and         *)
(* multiplying by 10^d gives raw again (raw = 0 gives "0", 1500 over 10^3   *)
(* gives "1.5").                                                            *)

\* the i-th of the d decimal places of the remainder r
DecimalPlace(r, d, i) == (r \div 10^(d - i)) % 10
\* the last decimal place of r that is not zero
LastPlace(r, d) == CHOOSE k \in 1..d : DecimalPlace(r, d, k) # 0 /\
                                        \A j \in (k + 1)..d : DecimalPlace(r, d, j) = 0
\* the text read back as a decimal number, times 10^d
DotOf(s) == IF \E i \in 1..Len(s) : s[i] = "." THEN CHOOSE i \in 1..Len(s) : s[i] = "."
            ELSE Len(s) + 1
ReadBack(s, d) ==
    LET places == SubSeq(s, DotOf(s) + 1, Len(s))
    IN  ParseInt(SubSeq(s, 1, DotOf(s) - 1)) * 10^d + ParseInt(places) * 10^(d - Len(places))

C22_FormatExact ==
    (fn = "format_token_balance" /\ Done /\ args.raw >= 0) =>
        LET whole == args.raw \div 10^args.d
            r == args.raw % 10^args.d
            out == result.value
        IN  /\ r = 0 => out = Str(whole)
            /\ r # 0 =>
                  out = Str(whole) \o <<".">>
                        \o [i \in 1..LastPlace(r, args.d) |->
                               DigitChar(DecimalPlace(r, args.d, i))]
            /\ Len(out) - DotOf(out) <= args.d
            /\ ReadBack(out, args.d) = args.raw
            /\ args.raw = 0 => out = <<"0">>

\* 1005 over 10^3 has been formatted: the remainder 5 is padded to "005"
C22_Witness ==
    /\ fn = "format_token_balance" /\ Done
    /\ args.raw = 1005 /\ args.d = 3
    /\ result.value = <<"1", ".", "0", "0", "5">>

\* 1500 over 10^3 has been formatted: the trailing zeros are removed
C22_WitnessStripped ==
    /\ fn = "format_token_balance" /\ Done
    /\ args.raw = 1500 /\ args.d = 3
    /\ result.value = <<"1", ".", "5">>

----------------------------------------------------------------------------
(* C23: for every negative value v, format_usd_value(v) is a minus sign     *)
(* followed by format_usd_value(-v), in every magnitude range.              *)
C23_NegativeUsd ==
    (fn = "format_usd_value" /\ Done /\ args.kind = "number" /\ args.neg /\ args.m # 0) =>
        result.value = <<Text("-")>> \o format_usd_value(Negated(args))

\* the part of C23 that holds: the ranges with a suffix
C23_NegativeUsdSuffixed ==
    (fn = "format_usd_value" /\ Done /\ args.kind = "number" /\ args.neg /\ args.m # 0
        /\ AtLeast(Abs(args), 3)) =>
        result.value = <<Text("-")>> \o format_usd_value(Negated(args))

----------------------------------------------------------------------------
(* C24: TheGraphClient.get_token_balances sets token_divisor to             *)
(* 10^decimals for every token entry the upstream returned, for every       *)
(* decimals value d >= 0 the upstream reports, d = 0 (divisor "1")          *)
(* included.  The code violates this for d = 0.                             *)
C24_TokenDivisor ==
    (fn = "token_page" /\ Ended /\ ~result.raised) =>
        \A i \in DOMAIN result.tokens :
            TokenBalance(result.tokens[i], get_chain_info(network)).token_divisor
                = StrPow10(DecimalsOf(result.tokens[i]))

\* the part of C24 that holds: every divisor is a one followed by zeros only
C24_DivisorPowerOfTen ==
    (fn = "token_page" /\ Ended /\ ~result.raised) =>
        \A i \in DOMAIN result.tokens :
            LET divisor == TokenBalance(result.tokens[i], get_chain_info(network)).token_divisor
            IN  /\ divisor[1] = "1"
                /\ \A k \in 2..Len(divisor) : divisor[k] = "0"

----------------------------------------------------------------------------
(* Two calls of one paginator run interleaved on one event loop.  The       *)
(* variables pc, page, all_tokens, result, requested, answered and address  *)
(* are those of the call that runs; peer holds them for the call that is    *)
(* suspended.  The event loop can switch at every suspension point.         *)

\* the tokens of the second wallet are numbered from here
OtherWallet == 3000
\* while two calls are interleaved the upstream answers full pages below this page
MaxInterleavedPages == 3

\* the locals and arguments of the running coroutine
Frame ==
    [pc |-> pc, page |-> page, all_tokens |-> all_tokens, result |-> result,
     requested |-> requested, answered |-> answered, address |-> address]

\* faulty variant: all_tokens is one list shared by the calls
Resume_SharedAccumulator(frame) == [frame EXCEPT !.all_tokens = all_tokens]

\* a coroutine resumes with the locals it was suspended with
Resume(frame) == frame

Switch ==
    /\ peer # <<>>
    /\ peer' = <<Frame>>
    /\ LET frame == Resume(peer[1]) IN
         /\ pc' = frame.pc
         /\ page' = frame.page
         /\ all_tokens' = frame.all_tokens
         /\ result' = frame.result
         /\ requested' = frame.requested
         /\ answered' = frame.answered
         /\ address' = frame.address
    /\ UNCHANGED <<fn, network, token_symbols, api_key, env_key, caller, token_symbol, outer,
                   sessions, sent_keys, registry, args, null_symbols>>

InterleavedAnswers(f, p) ==
    {Ok(0), Ok(3), Status(401), Failed("timeout")}
      \cup (IF p < MaxInterleavedPages THEN {Ok(limit)} ELSE {})
      \cup (IF RateLimitedSoFar = 0 /\ p = 1 THEN {Status(429)} ELSE {})

ConcurrentInit ==
    /\ fn \in {"ethereum", "client"}
    /\ network = (IF fn = "client" THEN "ethereum" ELSE None)
    /\ token_symbols = NoSymbols
    /\ api_key = "param-key"
    /\ env_key = None
    /\ caller = None
    /\ token_symbol = None
    /\ registry = SUPPORTED_CHAINS
    /\ args = None
    /\ null_symbols = {}
    /\ outer = Pending
    /\ sessions = (IF fn \in ClientMethods THEN OpenSession(0) ELSE 0)
    /\ sent_keys = {}
    /\ pc = "idle"
    /\ page = 0
    /\ all_tokens = <<>>
    /\ result = Pending
    /\ requested = <<>>
    /\ answered = <<>>
    /\ address = 0
    /\ peer = <<[pc |-> "idle", page |-> 0, all_tokens |-> <<>>, result |-> Pending,
                 requested |-> <<>>, answered |-> <<>>, address |-> OtherWallet]>>

ConcurrentNext ==
    \/ Switch
    \/ Call
    \/ Request
    \/ \E a \in InterleavedAnswers(fn, page) : Respond(a)
    \/ Cooldown
    \/ ClientCall
    \/ ClientRequest
    \/ \E a \in InterleavedAnswers(fn, page) : ClientRespond(a)
    \/ ClientCooldown

ConcurrentSpec == ConcurrentInit /\ [][ConcurrentNext]_vars

\* What the running call returns when it runs alone and the upstream gives
\* the answers from the i-th on, with page p and all_tokens = tokens at the
\* loop head; Pending when the answers do not suffice.
RECURSIVE RunAlone(_, _, _, _, _)
RunAlone(f, answers, i, p, tokens) ==
    IF ~LoopCondition(f, p) THEN AfterLoop(f, p, tokens)
    ELSE IF i > Len(answers) THEN Pending
    ELSE LET a == answers[i] IN
         IF Is429(a) THEN RunAlone(f, answers, i + 1, RetryPage(p), tokens)
         ELSE IF f = "client"
         THEN LET r == get_token_balances(a, p) IN
              IF r.raised THEN Reraise(tokens, r.error)
              ELSE IF Len(r.tokens) = 0 THEN Return(tokens, None)
              ELSE IF IsLastPage(Len(r.tokens)) THEN Return(tokens \o r.tokens, None)
              ELSE RunAlone(f, answers, i + 1, NextPage(p), tokens \o r.tokens)
         ELSE IF a.kind \in ExceptionKinds
         THEN Return(FailureTokens(tokens), ExceptionMessage(f, a.kind))
         ELSE IF a.kind = "status" /\ a.code = 401
         THEN Return(AuthFailureTokens(tokens), AuthenticationFailed)
         ELSE IF a.kind = "status" /\ a.code = 403
         THEN Return(AuthFailureTokens(tokens), AccessForbidden)
         ELSE IF a.kind = "status" THEN Return(FailureTokens(tokens), HttpError(a.code))
         ELSE IF a.n = 0 THEN AfterLoop(f, p, tokens)
         ELSE LET more == tokens \o Retained(f, PageItems(p, a.n), token_symbols) IN
              IF IsLastPage(a.n) THEN AfterLoop(f, p, more)
              ELSE RunAlone(f, answers, i + 1, NextPage(p), more)

\* the number of entries the answers hold
RECURSIVE SumItems(_)
SumItems(answers) ==
    IF answers = <<>> THEN 0 ELSE answers[1].n + SumItems(Tail(answers))

\* the number of full pages among the answers
FullAnswers(answers) == Cardinality({i \in DOMAIN answers : IsFull(answers[i])})

(* C25: when two all-tokens fetches run interleaved at their suspension     *)
(* points, each keeps its own page counter and accumulator, starts at page  *)
(* 1, and returns exactly the result it would return when run alone against *)
(* the same upstream answers; no item of the other call's wallet appears in *)
(* its result.  (Stated of the running call: every state is reached with    *)
(* either call running.)                                                    *)
C25_Independence ==
    peer # <<>> =>
        /\ requested # <<>> => requested[1] = 1
        /\ pc \in {"delay", "request", "cooldown"} =>
              /\ page = 1 + FullAnswers(answered)
              /\ Len(all_tokens) = SumItems(answered)
        /\ \A i \in DOMAIN all_tokens :
              all_tokens[i] \in (address + 1)..(address + OtherWallet)
        /\ Done =>
              /\ result = RunAlone(fn, answered, 1, 1, <<>>)
              /\ \A i \in DOMAIN result.tokens :
                    result.tokens[i] \in (address + 1)..(address + OtherWallet)

\* a call has returned 13 tokens of its wallet while the other call, which has
\* gathered a page of its own, waits for the answer to its second request
C25_Witness ==
    /\ peer # <<>>
    /\ Done /\ Len(result.tokens) = 13 /\ result.error = None
    /\ peer[1].pc = "request" /\ peer[1].page = 2 /\ Len(peer[1].all_tokens) = limit

----------------------------------------------------------------------------
(* C26: for a network string that names none of the supported networks,     *)
(* TheGraphClient.get_native_balance returns None, get_token_balances       *)
(* returns an empty list and get_all_token_balances returns an empty list   *)
(* after a single iteration; none of them raises and none of them sends an  *)
(* upstream request.                                                        *)
C26_UnsupportedAtFacade ==
    (fn \in ClientMethods /\ Truthy(EffectiveKey(api_key, env_key))
        /\ Recognized(network) = {}) =>
        /\ requested = <<>>
        /\ answered = <<>>
        /\ sent_keys = {}
        /\ Ended =>
              /\ ~result.raised
              /\ fn = "native" => result = ReturnValue(NoBalance)
              /\ fn = "token_page" => result = Return(<<>>, None)
              /\ fn = "client" => result = Return(<<>>, None) /\ page = 1

C26_Witness ==
    /\ fn = "client" /\ network = "notachain" /\ pc = "exited"
    /\ result = Return(<<>>, None)
    /\ page = 1 /\ requested = <<>>

C26_WitnessNative ==
    /\ fn = "native" /\ network = "notachain" /\ pc = "exited"
    /\ result = ReturnValue(NoBalance)

----------------------------------------------------------------------------
(* One per-chain lookup of a token by symbol against an upstream whose      *)
(* second entry has a null symbol.                                          *)

NullSymbolInit ==
    /\ LookupStart
    /\ caller \in {"token_eth", "token_base"}
    /\ null_symbols = {2}

NullSymbolNext ==
    \/ LookupCall
    \/ Call
    \/ Request
    \/ \E a \in PageAnswers(fn, page) : Respond(a)
    \/ Resolve

NullSymbolSpec == NullSymbolInit /\ [][NullSymbolNext]_vars

(* C27: get_token_balance_ethereum_thegraph always returns a record and     *)
(* never raises, for every content of the upstream token pages, entries     *)
(* whose symbol is null included, when no symbol filter is in use.  The     *)
(* code violates this.                                                      *)
C27_EthLookupNeverRaises ==
    (caller = "token_eth" /\ pc = "returned") =>
        /\ ~outer.raised
        /\ "token_type" \in DOMAIN outer.value

\* the same statement of get_token_balance_base_thegraph, which holds
C27_BaseLookupNeverRaises ==
    (caller = "token_base" /\ pc = "returned") =>
        /\ ~outer.raised
        /\ "token_type" \in DOMAIN outer.value

----------------------------------------------------------------------------
(* C28: in get_token_balance_ethereum_thegraph and                          *)
(* get_token_balance_base_thegraph a token record is returned only if the   *)
(* pagination reported no error: whenever the paginated result carries an   *)
(* error, the maximum-page-limit error included, the function returns an    *)
(* error record with that error, balance "0" and an empty token_address,    *)
(* even when a token matching the symbol asked for is among the tokens      *)
(* gathered.                                                                *)
C28_ErrorBlocksToken ==
    (caller \in {"token_eth", "token_base"} /\ pc = "returned") =>
        /\ "token_id" \in DOMAIN outer.value => result.error = None
        /\ result.error # None =>
              /\ ~outer.raised
              /\ outer.value.error = result.error
              /\ outer.value.balance = "0"
              /\ outer.value.token_address = ""
              /\ outer.value.token_symbol = Upper(token_symbol)
              /\ "token_id" \notin DOMAIN outer.value

\* a transport failure on page 2 after a full page that holds a match
C28_Witness ==
    /\ caller = "token_base" /\ pc = "returned"
    /\ answered = <<Ok(limit), Failed("connect")>>
    /\ Len(result.tokens) = limit /\ MatchingPositions # {}
    /\ outer.value.error = result.error /\ outer.value.balance = "0"

\* the page ceiling was hit with 500 tokens gathered, a match among them
C28_WitnessCeiling ==
    /\ caller = "token_eth" /\ pc = "returned"
    /\ result.error = MaxPageLimitReached("ethereum")
    /\ Len(result.tokens) = limit * max_pages_ethereum /\ token_symbol = "usdc"
    /\ outer.value.error = result.error /\ outer.value.token_address = ""

----------------------------------------------------------------------------
(* C29: in the ethereum and base paginators the maximum-page-limit error is *)
(* returned exactly when the page numbered ceiling was answered with a full *)
(* page of 10 items: a wallet holding exactly 10*ceiling tokens gets the    *)
(* error although no token is missing, while a run whose ceiling-th page is *)
(* partial or empty, or which stopped earlier on a partial or empty page,   *)
(* returns error None.                                                      *)
CeilingPageFull ==
    \E i \in DOMAIN answered : requested[i] = max_pages(fn) /\ IsFull(answered[i])

C29_CeilingError ==
    (fn \in PerChain /\ Done /\ answered # <<>>) =>
        /\ result.error = MaxPageLimitReached(fn) <=> CeilingPageFull
        /\ (CeilingPageFull /\ ~token_symbols.given) =>
              Len(result.tokens) = limit * max_pages(fn)
        /\ (IsOk(Last(answered)) /\ ~CeilingPageFull) => result.error = None

\* a wallet of exactly 500 tokens: all of them are returned, with the error
C29_Witness ==
    /\ fn = "ethereum" /\ Done /\ ~token_symbols.given
    /\ CeilingPageFull
    /\ Len(result.tokens) = limit * max_pages_ethereum
    /\ result.error = MaxPageLimitReached("ethereum")

\* the ceiling page was partial: no error
C29_WitnessPartial ==
    /\ fn = "base" /\ Done
    /\ Last(requested) = max_pages_base /\ Last(answered) = Ok(3)
    /\ result.error = None

----------------------------------------------------------------------------
(* C30: in every paginator each page request is sent by the step that ends  *)
(* the inter-request delay, the first request of a call and every retry     *)
(* after a 429 included: the call and the end of the cooldown send nothing  *)
(* and lead to the delay, so no two page requests of a call are sent        *)
(* without a delay between them.                                            *)
\* what C30 says of one step
PacedStep ==
    fn \in Paginators =>
        /\ requested' # requested =>
              /\ pc = "delay" /\ pc' = "request"
              /\ requested' = Append(requested, page)
        /\ (pc = "idle" /\ pc' # "idle") => requested' = requested
        /\ (pc = "cooldown" /\ pc' # "cooldown") =>
              pc' = "delay" /\ requested' = requested /\ page' = page

C30_Pacing == [][PacedStep]_vars

\* the retry of page 1 has been sent after the cooldown and the delay
C30_Witness ==
    /\ fn \in Paginators /\ pc = "request"
    /\ answered = <<Status(429)>>
    /\ requested = <<1, 1>>


============================================================================
